---- MODULE Spec2Model ----
(***************************************************************************)
(* Probe & liveness engine of the observation tank: the EndpointProvider   *)
(* of context/EndpointContext (registry, status mapping, Error Info,       *)
(* probes racing their abort timers, the 60 s interval effect and the      *)
(* 10 s Error Info expiry effect).                                         *)
(*                                                                         *)
(* A state is what a render of the provider can observe: every handler,   *)
(* the state updates it queues and the effects that the resulting render  *)
(* runs are one step.  Time is the millisecond clock of Date.now(),       *)
(* advanced in steps of Quantum; a timer that is due fires before the     *)
(* clock advances again.                                                   *)
(***************************************************************************)
EXTENDS Integers, Sequences, FiniteSets, TLC

VARIABLES
    now,               \* Date.now(), in ms
    endpoints,         \* useState<Endpoint[]>
    endpointStatuses,  \* useState<Record<string, EndpointStatus>>
    errorInfo,         \* useState<ErrorInfo | null>
    errorTimers,       \* pending timeouts of the Error Info expiry effect
    probes,            \* probes whose fetch or abort timer is still pending
    optimistic,        \* queued useOptimistic actions of the pending transition
    intervalTimer,     \* pending setInterval of the ping effect
    calls,             \* operations the user interface has called so far
    credentialsArg,    \* buildAuthHeaders: the credential descriptor passed
    authHeaders,       \* buildAuthHeaders: what the call returned or threw
    endpointIdArg,     \* getStatusBadge: the id passed
    badge,             \* getStatusBadge: the element returned
    props,             \* ClownFishModel: props of the mounted instance, or null
    motion,            \* ClownFishModel: motion.current, in 1/1000 units
    animation,         \* ClownFishModel: what the swim clip was last told
    frames,            \* useFrame callbacks run so far
    renders            \* renders with a changed hasError so far

providerVars == <<now, endpoints, endpointStatuses, errorInfo, errorTimers, probes,
                  optimistic, intervalTimer, calls>>
callVars == <<credentialsArg, authHeaders, endpointIdArg, badge>>
fishVars == <<props, motion, animation, frames, renders>>
consumerVars == <<callVars, fishVars>>
vars == <<providerVars, consumerVars>>

----------------------------------------------------------------------------
(* Bounds of the model *)

MaxTicks == 6       \* clock steps explored
MaxEndpoints == 2   \* registered endpoints at a time
MaxInFlight == 2    \* probes with a pending fetch or abort timer at a time
MaxCalls == 2       \* operations called by the user interface in one run

(* Program constants *)

PROBE_TIMEOUT == 10000
PING_INTERVAL == 60000
ERROR_EXPIRY == 10000

Quantum == PROBE_TIMEOUT

(* null / undefined are the empty option, a value v is <<v>> *)
Null == <<>>
Some(v) == <<v>>

(* a function of the module that no caller has called yet *)
NotCalled == [called |-> FALSE]

URLs == {"https://a", "https://b"}

(* what the add form or the CSV import passes to addEndpoint; the other URL
   comes in through updateEndpoint *)
EndpointInputs == {[url |-> "https://a", credentials |-> Null]}

(* err.message of a transport failure (TypeError) of fetch *)
TransportMessages == {"", "Failed to fetch"}
AbortError == [name |-> "AbortError", message |-> "signal is aborted without reason"]
TransportError(m) == [name |-> "TypeError", message |-> m]

----------------------------------------------------------------------------
(* Helpers *)

Range(s) == {s[i] : i \in DOMAIN s}
RemoveAt(s, i) == [j \in 1..(Len(s) - 1) |-> IF j < i THEN s[j] ELSE s[j + 1]]
RegisteredIds == {endpoints[i].id : i \in DOMAIN endpoints}

(* { ...prev, [id]: entry } *)
PutStatus(prev, id, entry) ==
    [k \in DOMAIN prev \cup {id} |-> IF k = id THEN entry ELSE prev[k]]

(* delete copy[id] *)
DeleteStatus(prev, id) == [k \in DOMAIN prev \ {id} |-> prev[k]]

EmptyStatuses == [k \in {} |-> Null]

----------------------------------------------------------------------------
(* Auth Header Builder *)

(* Credential strings are sequences of UTF-16 code units, so that btoa is
   computed and not looked up.  The type tag of a descriptor is one of four
   literals and stays a model string. *)
Colon == <<58>>
Authorization == <<65, 117, 116, 104, 111, 114, 105, 122, 97, 116, 105, 111, 110>>
BasicPrefix == <<66, 97, 115, 105, 99, 32>>
BearerPrefix == <<66, 101, 97, 114, 101, 114, 32>>

(* a missing field is undefined, and undefined is as falsy as "" *)
Field(c, f) == IF f \in DOMAIN c THEN c[f] ELSE <<>>

(* the base64 alphabet A-Z a-z 0-9 + / and the padding = *)
Base64Char(n) ==
    CASE n < 26 -> 65 + n
      [] n >= 26 /\ n < 52 -> 97 + (n - 26)
      [] n >= 52 /\ n < 62 -> 48 + (n - 52)
      [] n = 62 -> 43
      [] OTHER -> 47
Base64Pad == 61

RECURSIVE Base64(_)
Base64(bytes) ==
    IF Len(bytes) = 0 THEN <<>>
    ELSE LET b1 == bytes[1]
             b2 == IF Len(bytes) > 1 THEN bytes[2] ELSE 0
             b3 == IF Len(bytes) > 2 THEN bytes[3] ELSE 0
             n == b1 * 65536 + b2 * 256 + b3
             c1 == Base64Char(n \div 262144)
             c2 == Base64Char((n \div 4096) % 64)
             c3 == Base64Char((n \div 64) % 64)
             c4 == Base64Char(n % 64)
         IN CASE Len(bytes) = 1 -> <<c1, c2, Base64Pad, Base64Pad>>
              [] Len(bytes) = 2 -> <<c1, c2, c3, Base64Pad>>
              [] OTHER -> <<c1, c2, c3, c4>> \o Base64(SubSeq(bytes, 4, Len(bytes)))

(* btoa takes a binary string: a code unit above 0xFF makes it throw
   InvalidCharacterError *)
BtoaThrows(s) == \E i \in DOMAIN s : s[i] > 255
Btoa(s) == Base64(s)

(* the one path of buildAuthHeaders that can throw: btoa of username:password *)
BuildAuthHeadersThrows(credentials) ==
    /\ credentials # Null
    /\ credentials[1].type = "basic"
    /\ Field(credentials[1], "username") # <<>>
    /\ Field(credentials[1], "password") # <<>>
    /\ BtoaThrows(credentials[1].username \o Colon \o credentials[1].password)

(* the headers object, as its set of <<name, value>> pairs *)
BuildAuthHeaders(credentials) ==
    IF credentials = Null THEN {}
    ELSE LET c == credentials[1] IN
         CASE c.type = "basic" ->
                IF Field(c, "username") # <<>> /\ Field(c, "password") # <<>>
                THEN {<<Authorization,
                        BasicPrefix \o Btoa(c.username \o Colon \o c.password)>>}
                ELSE {}
           [] c.type = "bearer" ->
                IF Field(c, "token") # <<>>
                THEN {<<Authorization, BearerPrefix \o c.token>>}
                ELSE {}
           [] c.type = "apikey" ->
                IF Field(c, "headerName") # <<>> /\ Field(c, "headerValue") # <<>>
                THEN {<<c.headerName, c.headerValue>>}
                ELSE {}
           [] OTHER -> {}

----------------------------------------------------------------------------
(* Status snapshot exposed to consumers: useOptimistic over endpointStatuses *)

(* { ...currentStatuses[id], status, lastChecked: new Date().toISOString() } *)
OptimisticReducer(currentStatuses, action) ==
    LET old == IF action.id \in DOMAIN currentStatuses
               THEN currentStatuses[action.id]
               ELSE [f \in {} |-> Null]
        entry == [f \in DOMAIN old \cup {"status", "lastChecked"} |->
                    CASE f = "status" -> action.status
                      [] f = "lastChecked" -> Some(now)
                      [] OTHER -> old[f]]
    IN PutStatus(currentStatuses, action.id, entry)

RECURSIVE ApplyOptimistic(_, _)
ApplyOptimistic(statuses, queue) ==
    IF queue = <<>> THEN statuses
    ELSE ApplyOptimistic(OptimisticReducer(statuses, Head(queue)), Tail(queue))

(* value.endpointStatuses: the queued optimistic actions are replayed over the
   current endpointStatuses for as long as an async transition is pending *)
optimisticStatuses == ApplyOptimistic(endpointStatuses, optimistic)

----------------------------------------------------------------------------
(* pingEndpoint *)

(* mutant: the probe starts without the optimistic update *)
OptimisticPendingMissing(endpoint) == <<>>

(* setOptimisticStatus({ id, status: "pending" }) *)
OptimisticPending(endpoint) == <<[id |-> endpoint.id, status |-> "pending"]>>

(* mutant: the abort timer is set to the ping interval instead of 10 s *)
NewProbeLateAbort(endpoint) ==
    [endpoint |-> endpoint,
     mode     |-> IF BuildAuthHeaders(endpoint.credentials) # {}
                  THEN "cors" ELSE "no-cors",
     started  |-> now,
     deadline |-> now + PING_INTERVAL,
     settled  |-> FALSE]

(* the AbortController timer and the fetch of one probe *)
NewProbe(endpoint) ==
    [endpoint |-> endpoint,
     mode     |-> IF BuildAuthHeaders(endpoint.credentials) # {}
                  THEN "cors" ELSE "no-cors",
     started  |-> now,
     deadline |-> now + PROBE_TIMEOUT,
     settled  |-> FALSE]

(* mutant: each probe is awaited before the next endpoint's is dispatched *)
ProbesAfterPingSerial(eps) ==
    probes \o (IF eps = <<>> THEN <<>> ELSE <<NewProbe(eps[1])>>)

(* endpoints.forEach(pingEndpoint) *)
ProbesAfterPing(eps) == probes \o [i \in 1..Len(eps) |-> NewProbe(eps[i])]

(* The reducer gives the same result for an action queued once or several
   times, so the queue keeps one copy of each action. *)
Enqueue(queue, actions) ==
    queue \o SelectSeq(actions, LAMBDA a : a \notin Range(queue))

RECURSIVE QueueAfterPing(_, _)
QueueAfterPing(queue, eps) ==
    IF eps = <<>> THEN queue
    ELSE QueueAfterPing(Enqueue(queue, OptimisticPending(Head(eps))), Tail(eps))

(* the transition is pending while the async function of some probe has not
   returned; when the last one returns the optimistic actions are dropped *)
AsyncPending(prs) == \E i \in DOMAIN prs : ~prs[i].settled
QueueAfterSettle(prs) == IF AsyncPending(prs) THEN optimistic ELSE <<>>

(* mutant: no fallback for an empty message *)
ErrorMessageNoFallback(err) ==
    IF err.name = "AbortError" THEN "Request timed out" ELSE err.message

(* err.name === "AbortError" ? "Request timed out"
                             : err.message || "Failed to reach endpoint" *)
ErrorMessage(err) ==
    IF err.name = "AbortError" THEN "Request timed out"
    ELSE IF err.message # "" THEN err.message ELSE "Failed to reach endpoint"

(* mutant: registration stamps the entry with the current time *)
PendingStatusStamped == [status |-> "pending", lastChecked |-> Some(now)]

OkStatus == [status |-> "ok", lastChecked |-> Some(now), error |-> Null]
ErrorStatus(msg) == [status |-> "error", lastChecked |-> Some(now), error |-> Some(msg)]
PendingStatus == [status |-> "pending", lastChecked |-> Null]

(* mutant: the ok write merges into the old entry and keeps its message *)
StatusesAfterOkKeepsError(endpoint) ==
    LET id == endpoint.id
        kept == IF id \in DOMAIN endpointStatuses
                   /\ "error" \in DOMAIN endpointStatuses[id]
                THEN endpointStatuses[id].error ELSE Null
    IN PutStatus(endpointStatuses, id,
                 [status |-> "ok", lastChecked |-> Some(now), error |-> kept])

(* try branch after the await: the authoritative write of the ok outcome *)
StatusesAfterOk(endpoint) == PutStatus(endpointStatuses, endpoint.id, OkStatus)

(* mutant: any recovery clears Error Info *)
ErrorInfoAfterOkClearsAny(endpoint) == Null

(* setErrorInfo((prev) => (prev?.endpointId === endpoint.id ? null : prev)) *)
ErrorInfoAfterOk(endpoint) ==
    IF errorInfo # Null /\ errorInfo[1].endpointId = endpoint.id
    THEN Null ELSE errorInfo

(* catch branch: the authoritative write of the error outcome *)
StatusesAfterError(endpoint, err) ==
    PutStatus(endpointStatuses, endpoint.id, ErrorStatus(ErrorMessage(err)))

ErrorInfoAfterError(endpoint, err) ==
    Some([endpointId |-> endpoint.id,
          url        |-> endpoint.url,
          error      |-> ErrorMessage(err),
          timestamp  |-> now])

----------------------------------------------------------------------------
(* Effects *)

(* mutant: the effect has no cleanup, timers of replaced values stay pending *)
ErrorTimersAfterNoCleanup(newInfo, timers) ==
    IF newInfo = errorInfo THEN timers
    ELSE IF newInfo # Null THEN timers \cup {now + ERROR_EXPIRY} ELSE timers

(* Error Info expiry effect, deps [errorInfo]: the cleanup clears the timer
   of the previous value, then a non-null value gets its own 10 s timer.  A
   failure always builds a new object, and it carries the time it was built,
   so equal values have equal timers. *)
ErrorTimersAfter(newInfo, timers) ==
    IF newInfo = errorInfo THEN timers
    ELSE IF newInfo # Null THEN {now + ERROR_EXPIRY} ELSE {}

(* Ping effect, deps [endpoints.length, pingAllEndpoints]: pingAllEndpoints is
   rebuilt whenever the endpoints array is replaced, so the effect reruns on
   every registry update: cleanup clears the interval, and with endpoints
   registered it pings all of them and starts a new interval. *)

(* mutant: the interval of the effect is two periods long *)
IntervalAfterTwoPeriods(eps) ==
    IF Len(eps) = 0 THEN Null ELSE Some(now + PING_INTERVAL + PING_INTERVAL)

IntervalAfter(eps) == IF Len(eps) = 0 THEN Null ELSE Some(now + PING_INTERVAL)

PingEffect(eps) ==
    /\ Len(probes) + Len(eps) <= MaxInFlight
    /\ probes' = ProbesAfterPing(eps)
    /\ optimistic' = QueueAfterPing(optimistic, eps)
    /\ intervalTimer' = IntervalAfter(eps)

----------------------------------------------------------------------------
(* Initial state: nothing saved in localStorage, first render done *)

Init ==
    /\ now = 0
    /\ endpoints = <<>>
    /\ endpointStatuses = EmptyStatuses
    /\ errorInfo = Null
    /\ errorTimers = {}
    /\ probes = <<>>
    /\ optimistic = <<>>
    /\ intervalTimer = Null
    /\ calls = 0
    /\ credentialsArg = Null
    /\ authHeaders = NotCalled
    /\ endpointIdArg = 0
    /\ badge = NotCalled
    /\ props = Null
    /\ motion = Null
    /\ animation = Null
    /\ frames = 0
    /\ renders = 0

----------------------------------------------------------------------------
(* Registry operations; each ends with the effects of the render it causes *)

Called == calls < MaxCalls /\ calls' = calls + 1

addEndpoint(url, credentials) ==
    LET newEndpoint == [id |-> now, url |-> url, credentials |-> credentials]
        eps == Append(endpoints, newEndpoint)
    IN /\ Called
       /\ Len(endpoints) < MaxEndpoints
       /\ endpoints' = eps
       /\ endpointStatuses' = PutStatus(endpointStatuses, newEndpoint.id, PendingStatus)
       /\ PingEffect(eps)
       /\ UNCHANGED <<now, errorInfo, errorTimers>>

removeEndpoint(id) ==
    LET eps == SelectSeq(endpoints, LAMBDA ep : ep.id # id)
    IN /\ Called
       /\ endpoints' = eps
       /\ endpointStatuses' = DeleteStatus(endpointStatuses, id)
       /\ PingEffect(eps)
       /\ UNCHANGED <<now, errorInfo, errorTimers>>

removeAllEndpoints ==
    /\ Called
    /\ endpoints' = <<>>
    /\ endpointStatuses' = EmptyStatuses
    /\ errorInfo' = Null
    /\ errorTimers' = ErrorTimersAfter(Null, errorTimers)
    /\ PingEffect(<<>>)
    /\ UNCHANGED now

(* mutant: the reset keeps the old entry's fields and only sets the status *)
StatusesAfterUpdateKeepsFields(id, updates) ==
    IF "url" \in DOMAIN updates /\ id \in DOMAIN endpointStatuses
    THEN PutStatus(endpointStatuses, id,
                   [endpointStatuses[id] EXCEPT !.status = "pending"])
    ELSE endpointStatuses

(* updates is a record that has a url field or not (description and colour
   are not part of the probe engine's state) *)
UpdatedEndpoint(ep, updates) ==
    [ep EXCEPT !.url = IF "url" \in DOMAIN updates THEN updates.url ELSE ep.url]

StatusesAfterUpdate(id, updates) ==
    IF "url" \in DOMAIN updates
    THEN PutStatus(endpointStatuses, id, PendingStatus)
    ELSE endpointStatuses

updateEndpoint(id, updates) ==
    LET eps == [i \in DOMAIN endpoints |->
                  IF endpoints[i].id = id
                  THEN UpdatedEndpoint(endpoints[i], updates)
                  ELSE endpoints[i]]
    IN /\ Called
       /\ endpoints' = eps
       /\ endpointStatuses' = StatusesAfterUpdate(id, updates)
       /\ PingEffect(eps)
       /\ UNCHANGED <<now, errorInfo, errorTimers>>

(* manual ping of a listed endpoint *)
pingEndpoint(endpoint) ==
    /\ Called
    /\ Len(probes) < MaxInFlight
    /\ probes' = ProbesAfterPing(<<endpoint>>)
    /\ optimistic' = QueueAfterPing(optimistic, <<endpoint>>)
    /\ UNCHANGED <<now, endpoints, endpointStatuses, errorInfo, errorTimers,
                   intervalTimer>>

(* setInterval(pingAllEndpoints, 60000) comes due *)
IntervalFire ==
    /\ intervalTimer # Null
    /\ now >= intervalTimer[1]
    /\ Len(probes) + Len(endpoints) <= MaxInFlight
    /\ probes' = ProbesAfterPing(endpoints)
    /\ optimistic' = QueueAfterPing(optimistic, endpoints)
    /\ intervalTimer' = Some(intervalTimer[1] + PING_INTERVAL)
    /\ UNCHANGED <<calls, now, endpoints, endpointStatuses, errorInfo, errorTimers>>

----------------------------------------------------------------------------
(* Probe outcomes *)

(* what is left of probe i once its fetch has settled: clearTimeout runs on
   the success path only, so after a transport failure the abort timer stays
   pending until it fires *)
ProbesAfterResolve(i) == RemoveAt(probes, i)
ProbesAfterReject(i) == [probes EXCEPT ![i].settled = TRUE]

(* await fetch(...) returns *)
FetchResolve(i) ==
    LET ep == probes[i].endpoint
        prs == ProbesAfterResolve(i)
        info == ErrorInfoAfterOk(ep)
    IN /\ ~probes[i].settled
       /\ probes' = prs
       /\ optimistic' = QueueAfterSettle(prs)
       /\ endpointStatuses' = StatusesAfterOk(ep)
       /\ errorInfo' = info
       /\ errorTimers' = ErrorTimersAfter(info, errorTimers)
       /\ UNCHANGED <<calls, now, endpoints, intervalTimer>>

(* await fetch(...) throws a transport failure *)
FetchReject(i, message) ==
    LET ep == probes[i].endpoint
        err == TransportError(message)
        prs == ProbesAfterReject(i)
        info == ErrorInfoAfterError(ep, err)
    IN /\ ~probes[i].settled
       /\ probes' = prs
       /\ optimistic' = QueueAfterSettle(prs)
       /\ endpointStatuses' = StatusesAfterError(ep, err)
       /\ errorInfo' = info
       /\ errorTimers' = ErrorTimersAfter(info, errorTimers)
       /\ UNCHANGED <<calls, now, endpoints, intervalTimer>>

(* setTimeout(() => controller.abort(), 10000) fires: a pending fetch throws
   AbortError, a settled one is not affected *)
AbortTimerFire(i) ==
    LET ep == probes[i].endpoint
        prs == RemoveAt(probes, i)
        info == ErrorInfoAfterError(ep, AbortError)
    IN /\ now >= probes[i].deadline
       /\ probes' = prs
       /\ IF probes[i].settled
          THEN UNCHANGED <<optimistic, endpointStatuses, errorInfo, errorTimers>>
          ELSE /\ optimistic' = QueueAfterSettle(prs)
               /\ endpointStatuses' = StatusesAfterError(ep, AbortError)
               /\ errorInfo' = info
               /\ errorTimers' = ErrorTimersAfter(info, errorTimers)
       /\ UNCHANGED <<calls, now, endpoints, intervalTimer>>

----------------------------------------------------------------------------
(* Error Info *)

dismissError ==
    /\ Called
    /\ errorInfo # Null
    /\ errorInfo' = Null
    /\ errorTimers' = ErrorTimersAfter(Null, errorTimers)
    /\ UNCHANGED <<now, endpoints, endpointStatuses, probes, optimistic, intervalTimer>>

(* the expiry effect's timeout fires: setErrorInfo(null) *)
ErrorTimerFire(deadline) ==
    /\ now >= deadline
    /\ errorInfo' = Null
    /\ errorTimers' = ErrorTimersAfter(Null, errorTimers \ {deadline})
    /\ UNCHANGED <<calls, now, endpoints, endpointStatuses, probes, optimistic, intervalTimer>>

----------------------------------------------------------------------------
(* Time *)

TimerDue ==
    \/ \E i \in DOMAIN probes : probes[i].deadline <= now
    \/ \E d \in errorTimers : d <= now
    \/ intervalTimer # Null /\ intervalTimer[1] <= now

(* Nothing depends on how long the provider sat idle before its first call
   (times only enter as differences and as ids), so the clock starts with it. *)
Tick ==
    /\ calls > 0
    /\ now < MaxTicks * Quantum
    /\ ~TimerDue
    /\ now' = now + Quantum
    /\ UNCHANGED <<calls, endpoints, endpointStatuses, errorInfo, errorTimers, probes,
                   optimistic, intervalTimer>>

----------------------------------------------------------------------------

UpdateInputs == {[url |-> u] : u \in URLs} \cup {[color |-> "hsl(0, 0%, 0%)"]}

Next ==
    \/ \E in \in EndpointInputs :
         addEndpoint(in.url, in.credentials) /\ UNCHANGED consumerVars
    \/ \E id \in RegisteredIds :
         removeEndpoint(id) /\ UNCHANGED consumerVars
    \/ removeAllEndpoints /\ UNCHANGED consumerVars
    \/ \E id \in RegisteredIds, up \in UpdateInputs :
         updateEndpoint(id, up) /\ UNCHANGED consumerVars
    \/ \E i \in DOMAIN endpoints :
         pingEndpoint(endpoints[i]) /\ UNCHANGED consumerVars
    \/ IntervalFire /\ UNCHANGED consumerVars
    \/ \E i \in DOMAIN probes :
         FetchResolve(i) /\ UNCHANGED consumerVars
    \/ \E i \in DOMAIN probes, m \in TransportMessages :
         FetchReject(i, m) /\ UNCHANGED consumerVars
    \/ \E i \in DOMAIN probes :
         AbortTimerFire(i) /\ UNCHANGED consumerVars
    \/ dismissError /\ UNCHANGED consumerVars
    \/ \E d \in errorTimers :
         ErrorTimerFire(d) /\ UNCHANGED consumerVars
    \/ Tick /\ UNCHANGED consumerVars

Spec == Init /\ [][Next]_vars

----------------------------------------------------------------------------
(* The two functions that consumers call: buildAuthHeaders and the
   getStatusBadge of useStatusBadge, each applied to arguments drawn at the
   start *)

MaxFieldLen == 2    \* code units in a credential field

(* "u" and the euro sign, which is not a Latin-1 character *)
CodeUnits == {117, 8364}

FieldStrings == UNION {[1..n -> CodeUnits] : n \in 0..MaxFieldLen}

(* Credentials | null; every field but the type is optional *)
CredentialInputs ==
    {Null, Some([type |-> "none"])}
    \cup {Some([type |-> "basic"])}
    \cup {Some([type |-> "basic", username |-> u]) : u \in FieldStrings}
    \cup {Some([type |-> "basic", password |-> w]) : w \in FieldStrings}
    \cup {Some([type |-> "basic", username |-> u, password |-> w]) :
            u \in FieldStrings, w \in FieldStrings}
    \cup {Some([type |-> "bearer"])}
    \cup {Some([type |-> "bearer", token |-> t]) : t \in FieldStrings}
    \cup {Some([type |-> "apikey"])}
    \cup {Some([type |-> "apikey", headerName |-> h]) : h \in FieldStrings}
    \cup {Some([type |-> "apikey", headerValue |-> v]) : v \in FieldStrings}
    \cup {Some([type |-> "apikey", headerName |-> h, headerValue |-> v]) :
            h \in FieldStrings, v \in FieldStrings}

(* entries a snapshot can hold for an id: what the provider writes, what the
   optimistic reducer makes of them, and what the tests of the hook pass *)
SnapshotEntries ==
    {[status |-> "pending", lastChecked |-> Null],
     [status |-> "pending", lastChecked |-> Some(0), error |-> Null],
     [status |-> "pending", lastChecked |-> Some(0), error |-> Some("Timeout")],
     [status |-> "ok", lastChecked |-> Some(0), error |-> Null],
     [status |-> "ok", lastChecked |-> Some(0)],
     [status |-> "error", lastChecked |-> Some(0), error |-> Some("Timeout")],
     Null}

Snapshots == {EmptyStatuses} \cup {PutStatus(EmptyStatuses, 0, e) : e \in SnapshotEntries}

BadgeIds == {0, 10000}

PendingBadge == [className |-> "badge-pending", text |-> "Pending"]
OkBadge == [className |-> "badge-ok", text |-> "OK"]
ErrorBadge == [className |-> "badge-error", text |-> "Error"]

(* !status: the entry is undefined or null *)
Falsy(entry) == DOMAIN entry = {}

(* mutant: only the pending status gives the Pending badge *)
GetStatusBadgeNoEntryCheck(endpointId) ==
    LET status == IF endpointId \in DOMAIN optimisticStatuses
                  THEN optimisticStatuses[endpointId] ELSE Null
    IN IF ~Falsy(status) /\ status.status = "pending" THEN PendingBadge
       ELSE IF ~Falsy(status) /\ status.status = "ok" THEN OkBadge
       ELSE ErrorBadge

(* const { endpointStatuses } = useEndpoints(): the snapshot of the context *)
GetStatusBadge(endpointId) ==
    LET status == IF endpointId \in DOMAIN optimisticStatuses
                  THEN optimisticStatuses[endpointId] ELSE Null
    IN IF Falsy(status) \/ status.status = "pending" THEN PendingBadge
       ELSE IF status.status = "ok" THEN OkBadge
       ELSE ErrorBadge

CallInit ==
    /\ now = 0
    /\ endpoints = <<>>
    /\ endpointStatuses \in Snapshots
    /\ errorInfo = Null
    /\ errorTimers = {}
    /\ probes = <<>>
    /\ optimistic = <<>>
    /\ intervalTimer = Null
    /\ calls = 0
    /\ credentialsArg \in CredentialInputs
    /\ authHeaders = NotCalled
    /\ endpointIdArg \in BadgeIds
    /\ badge = NotCalled
    /\ props = Null
    /\ motion = Null
    /\ animation = Null
    /\ frames = 0
    /\ renders = 0

CallBuildAuthHeaders ==
    /\ authHeaders = NotCalled
    /\ authHeaders' = IF BuildAuthHeadersThrows(credentialsArg)
                      THEN [threw |-> "InvalidCharacterError"]
                      ELSE [returned |-> BuildAuthHeaders(credentialsArg)]
    /\ UNCHANGED <<providerVars, fishVars, credentialsArg, endpointIdArg, badge>>

CallGetStatusBadge ==
    /\ badge = NotCalled
    /\ badge' = GetStatusBadge(endpointIdArg)
    /\ UNCHANGED <<providerVars, fishVars, credentialsArg, authHeaders, endpointIdArg>>

CallNext == CallBuildAuthHeaders \/ CallGetStatusBadge

CallSpec == CallInit /\ [][CallNext]_vars

----------------------------------------------------------------------------
(* Motion State Machine: one ClownFishModel.  Lengths and angles are
   integers in 1/1000 of the source's units (positions in 1/1000, angles in
   milliradians); a product with a factor f is truncated to that grid. *)

MaxFrames == 28     \* useFrame callbacks in one run
MaxRenders == 2     \* changes of the hasError prop in one run

PI == 3142
TWO_PI == 6283
QUARTER_PI == 785
LERP_SPEED == 20
ROT_LERP_SPEED == 30
SURFACE_Y == 8000
UPRIGHT == 100
DRIFT == 10

Abs(x) == IF x < 0 THEN -x ELSE x

(* x * (perMille / 1000) *)
Times(x, perMille) ==
    IF x >= 0 THEN (x * perMille) \div 1000 ELSE -(((-x) * perMille) \div 1000)

(* Math.sin and Math.cos on the grid (Bhaskara's rational approximation) *)
SinHalfTurn(x) ==
    LET q == x * (PI - x)
    IN (16000 * (q \div 1000)) \div ((5 * PI * PI - 4 * q) \div 1000)
Sin(a) ==
    LET x == a % TWO_PI
    IN IF x <= PI THEN SinHalfTurn(x) ELSE -SinHalfTurn(x - PI)
Cos(a) == Sin(a + PI \div 2)

(* the results of the four Math.random() calls of a mount effect run, in
   call order, each in 1/1000 *)
RandomDraws == {<<0, 0, 0, 0>>, <<500, 900, 100, 250>>}

Indices == {1}

(* (index % 10) * 1.5 - 5 *)
BaseY(index) == (index % 10) * 1500 - 5000

(* useRef({...}) at the first render *)
InitialMotion(p) ==
    [pos          |-> [x |-> 0, y |-> 0, z |-> 0],
     rotY         |-> IF p.isPreview THEN QUARTER_PI ELSE 0,
     rotZ         |-> IF p.isPreview /\ p.hasError THEN PI ELSE 0,
     targetY      |-> BaseY(p.index),
     targetRotZ   |-> IF p.isPreview /\ p.hasError THEN PI ELSE 0,
     baseY        |-> BaseY(p.index),
     radiusFac    |-> 10,
     dirSwitch    |-> FALSE,
     isRecovering |-> FALSE,
     prevHasError |-> p.hasError]

(* "Initialize position on mount": effect with deps [isPreview, hasError] *)
MountEffect(m, p, draw) ==
    IF p.isPreview
    THEN [m EXCEPT !.pos = [x |-> 0, y |-> 0, z |-> 0],
                   !.rotY = QUARTER_PI,
                   !.rotZ = IF p.hasError THEN PI ELSE 0,
                   !.targetRotZ = IF p.hasError THEN PI ELSE 0]
    ELSE [m EXCEPT !.radiusFac = Times(draw[1], 5) + 5,
                   !.pos = [x |-> 20 * (draw[2] - 500),
                            y |-> m.baseY,
                            z |-> 10 * (draw[3] - 500)],
                   !.targetY = m.baseY,
                   !.rotY = Times(draw[4], TWO_PI)]

(* mutant: an error turns the instance over where it is *)
ErrorEffectKeepsDepth(m, p) ==
    IF p.isPreview
    THEN [m EXCEPT !.rotZ = IF p.hasError THEN PI ELSE 0,
                   !.targetRotZ = IF p.hasError THEN PI ELSE 0]
    ELSE LET wasError == m.prevHasError
             n == [m EXCEPT !.prevHasError = p.hasError]
         IN IF p.hasError
            THEN [n EXCEPT !.targetRotZ = PI, !.isRecovering = FALSE]
            ELSE IF wasError
            THEN [n EXCEPT !.isRecovering = TRUE, !.targetRotZ = 0]
            ELSE [n EXCEPT !.targetY = n.baseY, !.targetRotZ = 0]

(* "Handle error state changes": effect with deps [hasError, isPreview] *)
ErrorEffect(m, p) ==
    IF p.isPreview
    THEN [m EXCEPT !.rotZ = IF p.hasError THEN PI ELSE 0,
                   !.targetRotZ = IF p.hasError THEN PI ELSE 0]
    ELSE LET wasError == m.prevHasError
             n == [m EXCEPT !.prevHasError = p.hasError]
         IN IF p.hasError
            THEN [n EXCEPT !.targetY = SURFACE_Y,
                           !.targetRotZ = PI,
                           !.isRecovering = FALSE]
            ELSE IF wasError
            THEN [n EXCEPT !.isRecovering = TRUE, !.targetRotZ = 0]
            ELSE [n EXCEPT !.targetY = n.baseY, !.targetRotZ = 0]

(* "Control animation based on error state": effect with deps [.., hasError] *)
AnimationEffect(m, p) ==
    IF p.hasError /\ ~m.isRecovering THEN Some("fadeOut") ELSE Some("play")

(* the effects of a render whose hasError (or the first render) is new, in
   the order of their declaration *)
MotionAfterEffects(m, p, draw) == ErrorEffect(MountEffect(m, p, draw), p)

(* the first render of an instance *)
Mount(p) ==
    \E draw \in RandomDraws :
        LET m == MotionAfterEffects(InitialMotion(p), p, draw)
        IN /\ props = Null
           /\ props' = Some(p)
           /\ motion' = Some(m)
           /\ animation' = AnimationEffect(m, p)
           /\ UNCHANGED <<frames, renders>>

(* a render with another hasError *)
Render(hasError) ==
    \E draw \in RandomDraws :
        LET p == [props[1] EXCEPT !.hasError = hasError]
            m == MotionAfterEffects(motion[1], p, draw)
        IN /\ props # Null
           /\ hasError # props[1].hasError
           /\ renders < MaxRenders
           /\ renders' = renders + 1
           /\ props' = Some(p)
           /\ motion' = Some(m)
           /\ animation' = AnimationEffect(m, p)
           /\ UNCHANGED frames

(* mutant: the callback never ends a recovery *)
MotionAfterFrameStaysRecovering(m, p) ==
    LET rolled == [m EXCEPT !.rotZ = m.rotZ + Times(m.targetRotZ - m.rotZ, ROT_LERP_SPEED)]
        upright == rolled
        risen == [upright EXCEPT
                    !.pos.y = upright.pos.y + Times(upright.targetY - upright.pos.y, LERP_SPEED)]
        turned == IF Abs(risen.rotY) >= TWO_PI
                  THEN [risen EXCEPT !.dirSwitch = ~risen.dirSwitch, !.rotY = 0]
                  ELSE risen
        yaw == turned.rotY + (IF turned.dirSwitch THEN turned.radiusFac ELSE -turned.radiusFac)
        swum == [turned EXCEPT !.rotY = yaw,
                               !.pos.x = turned.pos.x + Times(Sin(yaw), DRIFT),
                               !.pos.z = turned.pos.z + Times(Cos(yaw), DRIFT)]
    IN IF p.isPreview THEN rolled
       ELSE IF ~p.hasError /\ ~risen.isRecovering THEN swum
       ELSE risen

(* mutant: the callback swims while recovering *)
MotionAfterFrameSwimsRecovering(m, p) ==
    LET rolled == [m EXCEPT !.rotZ = m.rotZ + Times(m.targetRotZ - m.rotZ, ROT_LERP_SPEED)]
        upright == IF rolled.isRecovering /\ Abs(rolled.rotZ) < UPRIGHT
                   THEN [rolled EXCEPT !.targetY = rolled.baseY, !.isRecovering = FALSE]
                   ELSE rolled
        risen == [upright EXCEPT
                    !.pos.y = upright.pos.y + Times(upright.targetY - upright.pos.y, LERP_SPEED)]
        turned == IF Abs(risen.rotY) >= TWO_PI
                  THEN [risen EXCEPT !.dirSwitch = ~risen.dirSwitch, !.rotY = 0]
                  ELSE risen
        yaw == turned.rotY + (IF turned.dirSwitch THEN turned.radiusFac ELSE -turned.radiusFac)
        swum == [turned EXCEPT !.rotY = yaw,
                               !.pos.x = turned.pos.x + Times(Sin(yaw), DRIFT),
                               !.pos.z = turned.pos.z + Times(Cos(yaw), DRIFT)]
    IN IF p.isPreview THEN rolled
       ELSE IF ~p.hasError THEN swum
       ELSE risen

(* useFrame callback *)
MotionAfterFrame(m, p) ==
    LET rolled == [m EXCEPT !.rotZ = m.rotZ + Times(m.targetRotZ - m.rotZ, ROT_LERP_SPEED)]
        upright == IF rolled.isRecovering /\ Abs(rolled.rotZ) < UPRIGHT
                   THEN [rolled EXCEPT !.targetY = rolled.baseY, !.isRecovering = FALSE]
                   ELSE rolled
        risen == [upright EXCEPT
                    !.pos.y = upright.pos.y + Times(upright.targetY - upright.pos.y, LERP_SPEED)]
        turned == IF Abs(risen.rotY) >= TWO_PI
                  THEN [risen EXCEPT !.dirSwitch = ~risen.dirSwitch, !.rotY = 0]
                  ELSE risen
        yaw == turned.rotY + (IF turned.dirSwitch THEN turned.radiusFac ELSE -turned.radiusFac)
        swum == [turned EXCEPT !.rotY = yaw,
                               !.pos.x = turned.pos.x + Times(Sin(yaw), DRIFT),
                               !.pos.z = turned.pos.z + Times(Cos(yaw), DRIFT)]
    IN IF p.isPreview THEN rolled
       ELSE IF ~p.hasError /\ ~risen.isRecovering THEN swum
       ELSE risen

Frame ==
    /\ props # Null
    /\ motion' = Some(MotionAfterFrame(motion[1], props[1]))
    /\ frames' = frames + 1
    /\ UNCHANGED <<props, animation, renders>>

(* key is the React key of the instance: the endpoint id in the aquarium *)
FishProps ==
    {[key |-> 0, hasError |-> e, isPreview |-> v, index |-> i] :
        e \in BOOLEAN, v \in BOOLEAN, i \in Indices}

MotionNext ==
    \/ \E p \in FishProps : Mount(p) /\ UNCHANGED <<providerVars, callVars>>
    \/ \E e \in BOOLEAN : Render(e) /\ UNCHANGED <<providerVars, callVars>>
    \/ frames < MaxFrames /\ Frame /\ UNCHANGED <<providerVars, callVars>>

MotionSpec == Init /\ [][MotionNext]_vars

(* the render loop calls the useFrame callback of a mounted instance on
   every animation frame *)
FrameLoop == frames < MaxFrames /\ Frame /\ UNCHANGED <<providerVars, callVars>>

MotionFairSpec == MotionSpec /\ WF_vars(FrameLoop)

----------------------------------------------------------------------------
(* Aquarium: the provider together with the instance that the aquarium
   renders for the first listed endpoint, in the end-to-end scenario of one
   registered endpoint *)

MaxTankFrames == 3  \* useFrame callbacks in one run of the aquarium

(* !!status?.error *)
Truthy(entry, f) == f \in DOMAIN entry /\ entry[f] # Null /\ entry[f] # Some("")

(* mutant: only the error status counts *)
HasErrorStatusOnly(statuses, id) ==
    /\ id \in DOMAIN statuses
    /\ statuses[id].status = "error"

(* status?.status === "error" ||
   (status?.status === "pending" && !!status?.error) *)
HasError(statuses, id) ==
    /\ id \in DOMAIN statuses
    /\ \/ statuses[id].status = "error"
       \/ statuses[id].status = "pending" /\ Truthy(statuses[id], "error")

AquariumProps(eps, statuses) ==
    [key |-> eps[1].id, hasError |-> HasError(statuses, eps[1].id),
     isPreview |-> FALSE, index |-> 0]

Unmount ==
    /\ props' = Null
    /\ motion' = Null
    /\ animation' = Null
    /\ UNCHANGED <<frames, renders>>

(* endpoints.map(...) of the render that follows a provider step *)
AquariumRender ==
    IF endpoints' = <<>> THEN Unmount
    ELSE LET p == AquariumProps(endpoints', optimisticStatuses') IN
         IF props = Null THEN Mount(p)
         ELSE IF props[1].key # p.key THEN Unmount
         ELSE IF props[1].hasError # p.hasError THEN Render(p.hasError)
         ELSE UNCHANGED fishVars

(* one endpoint is registered and probed (on the interval and by hand) and
   nobody edits or removes it *)
TankNext ==
    \/ \E in \in EndpointInputs :
         /\ endpoints = <<>>
         /\ addEndpoint(in.url, in.credentials)
         /\ AquariumRender /\ UNCHANGED callVars
    \/ \E i \in DOMAIN endpoints :
         pingEndpoint(endpoints[i]) /\ AquariumRender /\ UNCHANGED callVars
    \/ IntervalFire /\ AquariumRender /\ UNCHANGED callVars
    \/ \E i \in DOMAIN probes :
         FetchResolve(i) /\ AquariumRender /\ UNCHANGED callVars
    \/ \E i \in DOMAIN probes, m \in TransportMessages :
         FetchReject(i, m) /\ AquariumRender /\ UNCHANGED callVars
    \/ \E i \in DOMAIN probes :
         AbortTimerFire(i) /\ AquariumRender /\ UNCHANGED callVars
    \/ \E d \in errorTimers :
         ErrorTimerFire(d) /\ AquariumRender /\ UNCHANGED callVars
    \/ Tick /\ AquariumRender /\ UNCHANGED callVars
    \/ frames < MaxTankFrames /\ Frame /\ UNCHANGED <<providerVars, callVars>>

TankSpec == Init /\ [][TankNext]_vars

(* the same scenario in which the endpoint is also edited *)
EditedTankNext ==
    \/ TankNext
    \/ \E i \in DOMAIN endpoints, updates \in UpdateInputs :
         /\ updateEndpoint(endpoints[i].id, updates)
         /\ AquariumRender /\ UNCHANGED callVars

EditedTankSpec == Init /\ [][EditedTankNext]_vars

----------------------------------------------------------------------------
(* Credentialed probes: one endpoint registered with a bearer token, whose
   probes are sent in cors mode and get a readable response *)

CredentialedInputs ==
    {[url |-> "https://a", credentials |-> Some([type |-> "bearer", token |-> <<117>>])]}

(* response.status of a resolved fetch: an opaque response (no-cors) has
   status 0, a cors response has the status the server sent *)
HttpStatuses == {200, 401, 500}
ResponseStatuses(mode) == IF mode = "no-cors" THEN {0} ELSE HttpStatuses

(* await fetch(...) returns a response: its value is dropped, nothing reads
   response.ok or response.status *)
FetchResponds(i, status) ==
    /\ status \in ResponseStatuses(probes[i].mode)
    /\ FetchResolve(i)

AuthNext ==
    \/ \E in \in CredentialedInputs :
         /\ endpoints = <<>>
         /\ addEndpoint(in.url, in.credentials)
         /\ UNCHANGED consumerVars
    \/ \E i \in DOMAIN endpoints :
         pingEndpoint(endpoints[i]) /\ UNCHANGED consumerVars
    \/ IntervalFire /\ UNCHANGED consumerVars
    \/ \E i \in DOMAIN probes, st \in HttpStatuses :
         FetchResponds(i, st) /\ UNCHANGED consumerVars
    \/ \E i \in DOMAIN probes, m \in TransportMessages :
         FetchReject(i, m) /\ UNCHANGED consumerVars
    \/ \E i \in DOMAIN probes :
         AbortTimerFire(i) /\ UNCHANGED consumerVars
    \/ \E d \in errorTimers :
         ErrorTimerFire(d) /\ UNCHANGED consumerVars
    \/ Tick /\ UNCHANGED consumerVars

AuthSpec == Init /\ [][AuthNext]_vars

----------------------------------------------------------------------------
(* Properties *)

StatusOf(id) == endpointStatuses[id]
HasMessage(entry) == "error" \in DOMAIN entry /\ entry.error # <<>>
Stale(i) == probes[i].endpoint.id \notin RegisteredIds

(* C1: every key of the status mapping is the id of a registered endpoint,
   also after the outcome of a probe of a removed endpoint is delivered. *)
C1_StatusKeysRegistered == DOMAIN endpointStatuses \subseteq RegisteredIds

(* C2: an unreachable outcome (transport failure or timeout) of a probe whose
   endpoint was removed while it was in flight leaves Error Info and every
   other endpoint's status entry as they were. *)
C2_StaleFailureInert ==
    [][\A i \in DOMAIN probes :
         (/\ Stale(i)
          /\ ~probes[i].settled
          /\ \/ \E m \in TransportMessages : FetchReject(i, m)
             \/ AbortTimerFire(i))
         => /\ errorInfo' = errorInfo
            /\ \A k \in DOMAIN endpointStatuses \ {probes[i].endpoint.id} :
                 k \in DOMAIN endpointStatuses'
                 /\ endpointStatuses'[k] = endpointStatuses[k]]_vars

(* C3: right after addEndpoint the status mapping has an entry for the new
   endpoint's id with status pending, a null lastChecked and no error message,
   whatever the mapping held before. *)
C3_AddedIsPending ==
    [][\A in \in EndpointInputs :
         addEndpoint(in.url, in.credentials)
         => LET id == endpoints'[Len(endpoints')].id IN
            /\ id \in DOMAIN endpointStatuses'
            /\ endpointStatuses'[id].status = "pending"
            /\ endpointStatuses'[id].lastChecked = <<>>
            /\ ~HasMessage(endpointStatuses'[id])]_vars

(* a second endpoint has just been added beside one whose probe has ended *)
C3_Witness ==
    /\ Len(endpoints) = 2
    /\ endpoints[1].id # endpoints[2].id
    /\ endpoints[2].id = now
    /\ endpoints[1].id \in DOMAIN endpointStatuses
    /\ StatusOf(endpoints[1].id).status \in {"ok", "error"}
    /\ endpoints[2].id \in DOMAIN endpointStatuses
    /\ StatusOf(endpoints[2].id) = [status |-> "pending", lastChecked |-> <<>>]

(* C4: the reachable outcome of a probe of endpoint e makes e's entry
   {status ok, error null, lastChecked = arrival time}, whatever it was. *)
C4_ReachableIsOk ==
    [][\A i \in DOMAIN probes :
         FetchResolve(i)
         => endpointStatuses'[probes[i].endpoint.id]
              = [status |-> "ok", lastChecked |-> <<now>>, error |-> <<>>]]_vars

(* an endpoint is ok although a probe of it failed less than 10 s ago (the
   failed probe's abort timer is still pending): ok has replaced error *)
C4_Witness ==
    \E i \in DOMAIN probes :
        /\ probes[i].settled
        /\ probes[i].endpoint.id \in DOMAIN endpointStatuses
        /\ StatusOf(probes[i].endpoint.id)
             = [status |-> "ok", lastChecked |-> <<now>>, error |-> <<>>]

(* C5: an unreachable outcome makes the entry {status error, lastChecked =
   arrival time} with the message "Request timed out" when the abort timer
   ended the probe, and otherwise the transport error's message, or "Failed
   to reach endpoint" when that message is empty. *)
C5_UnreachableMessage ==
    [][\A i \in DOMAIN probes :
         LET id == probes[i].endpoint.id
             failed(msg) == endpointStatuses'[id]
                 = [status |-> "error", lastChecked |-> <<now>>, error |-> <<msg>>]
         IN /\ \A m \in TransportMessages :
                  FetchReject(i, m)
                  => failed(IF m = "" THEN "Failed to reach endpoint" ELSE m)
            /\ (AbortTimerFire(i) /\ ~probes[i].settled)
                  => failed("Request timed out")]_vars

(* one endpoint timed out and another failed with an empty message *)
C5_Witness ==
    \E a, b \in DOMAIN endpointStatuses :
        /\ StatusOf(a).status = "error"
        /\ StatusOf(a).error = <<"Request timed out">>
        /\ StatusOf(b).status = "error"
        /\ StatusOf(b).error = <<"Failed to reach endpoint">>
(* C6: every probe ends in exactly one terminal outcome, written to the
   status mapping, no later than 10 s after it started: no fetch is pending
   past its timeout, every probe that ends writes ok or error for its
   endpoint at that moment, one probe at a time, and the abort timer of a
   probe that has already ended writes nothing. *)
Unsettled(prs) == Cardinality({i \in DOMAIN prs : ~prs[i].settled})

C6_OneOutcomeInTime ==
    [][/\ \A i \in DOMAIN probes' :
            ~probes'[i].settled => now' - probes'[i].started <= 10000
       /\ Unsettled(probes') < Unsettled(probes)
            => /\ Unsettled(probes') = Unsettled(probes) - 1
               /\ \E i \in DOMAIN probes :
                    LET id == probes[i].endpoint.id IN
                    /\ ~probes[i].settled
                    /\ id \in DOMAIN endpointStatuses'
                    /\ endpointStatuses'[id].status \in {"ok", "error"}
                    /\ endpointStatuses'[id].lastChecked = <<now>>
       /\ \A i \in DOMAIN probes :
            (probes[i].settled /\ AbortTimerFire(i))
            => UNCHANGED <<endpointStatuses, errorInfo>>]_vars

(* a probe has just been ended by its abort timer, 10 s after it started *)
C6_Witness ==
    /\ now >= 10000
    /\ \E id \in DOMAIN endpointStatuses :
         StatusOf(id) = [status |-> "error", lastChecked |-> <<now>>,
                         error |-> <<"Request timed out">>]

(* C7: updateEndpoint with a url sets the entry of id to pending with a null
   lastChecked and no error message, whatever the entry was. *)
C7_UrlEditResets ==
    [][\A id \in RegisteredIds, u \in URLs :
         updateEndpoint(id, [url |-> u])
         => /\ id \in DOMAIN endpointStatuses'
            /\ endpointStatuses'[id].status = "pending"
            /\ endpointStatuses'[id].lastChecked = <<>>
            /\ ~HasMessage(endpointStatuses'[id])]_vars

(* the URL of an endpoint in error was edited: Error Info still shows the
   old URL's failure, the entry is back to pending *)
C7_Witness ==
    /\ errorInfo # <<>>
    /\ \E i \in DOMAIN endpoints :
         /\ endpoints[i].id = errorInfo[1].endpointId
         /\ endpoints[i].url # errorInfo[1].url
         /\ endpoints[i].id \in DOMAIN endpointStatuses
         /\ StatusOf(endpoints[i].id) = [status |-> "pending", lastChecked |-> <<>>]

(* C8: a failure replaces Error Info with its own endpoint id, URL, message
   and time; a reachable outcome of an endpoint with another id leaves Error
   Info as it is; a reachable outcome of the endpoint Error Info names sets it
   to null. *)
C8_ErrorInfoMostRecent ==
    [][\A i \in DOMAIN probes :
         LET ep == probes[i].endpoint
             failure == /\ errorInfo' # <<>>
                        /\ errorInfo'[1].endpointId = ep.id
                        /\ errorInfo'[1].url = ep.url
                        /\ errorInfo'[1].timestamp = now
                        /\ <<errorInfo'[1].error>> = endpointStatuses'[ep.id].error
         IN /\ (\E m \in TransportMessages : FetchReject(i, m)) => failure
            /\ (AbortTimerFire(i) /\ ~probes[i].settled) => failure
            /\ FetchResolve(i)
                 => IF errorInfo # <<>> /\ errorInfo[1].endpointId = ep.id
                    THEN errorInfo' = <<>>
                    ELSE errorInfo' = errorInfo]_vars

(* Error Info shows the failure of B, the endpoint added last, and the
   endpoint A added before it has become ok after that failure *)
C8_Witness ==
    /\ Len(endpoints) = 2
    /\ errorInfo # <<>>
    /\ errorInfo[1].endpointId = endpoints[2].id
    /\ endpoints[1].id # endpoints[2].id
    /\ endpoints[1].id \in DOMAIN endpointStatuses
    /\ StatusOf(endpoints[1].id).status = "ok"
    /\ StatusOf(endpoints[1].id).lastChecked[1] > errorInfo[1].timestamp

(* C9: while Error Info is set, exactly one expiry timer is pending, it is
   due 10 s after the value was set, and the value does not outlive it; while
   Error Info is null no expiry timer is pending. *)
C9_ErrorInfoExpiry ==
    IF errorInfo = <<>>
    THEN errorTimers = {}
    ELSE /\ errorTimers = {errorInfo[1].timestamp + 10000}
         /\ now <= errorInfo[1].timestamp + 10000

(* B's failure has just replaced Error Info 10 s after A's failure *)
C9_Witness ==
    /\ errorInfo # <<>>
    /\ errorInfo[1].timestamp = now
    /\ \E a \in DOMAIN endpointStatuses :
         /\ a # errorInfo[1].endpointId
         /\ StatusOf(a).status = "error"
         /\ StatusOf(a).lastChecked = <<now - 10000>>

(* C10: while a probe's fetch is pending, the status snapshot given to
   consumers shows its endpoint as pending, so pending is visible from the
   dispatch of the probe until its outcome is applied. *)
C10_PendingWhileInFlight ==
    \A i \in DOMAIN probes :
        ~probes[i].settled
        => /\ probes[i].endpoint.id \in DOMAIN optimisticStatuses
           /\ optimisticStatuses[probes[i].endpoint.id].status = "pending"

(* a re-check is in flight for an endpoint whose stored status is ok or error *)
C10_Witness ==
    \E i \in DOMAIN probes :
        LET id == probes[i].endpoint.id IN
        /\ ~probes[i].settled
        /\ id \in DOMAIN endpointStatuses
        /\ StatusOf(id).status \in {"ok", "error"}
        /\ optimisticStatuses[id].status = "pending"

(* C11: one pingAllEndpoints call dispatches a probe of every registered
   endpoint in the same step, beside the probes already in flight, and while
   a probe of one endpoint hangs, the outcome of a probe of another endpoint
   can arrive at any moment and is written to the status mapping when it
   arrives. *)
Dispatched(eps) ==
    /\ Len(probes') = Len(probes) + Len(eps)
    /\ SubSeq(probes', 1, Len(probes)) = probes
    /\ \A k \in DOMAIN eps :
         LET p == probes'[Len(probes) + k] IN
         p.endpoint = eps[k] /\ p.started = now /\ ~p.settled

PingAllStep ==
    \/ IntervalFire
    \/ \E in \in EndpointInputs : addEndpoint(in.url, in.credentials)
    \/ \E id \in RegisteredIds : removeEndpoint(id)
    \/ \E id \in RegisteredIds, up \in UpdateInputs : updateEndpoint(id, up)

C11_NoProbeWaits ==
    \A i \in DOMAIN probes :
        ~probes[i].settled
        => /\ ENABLED FetchResolve(i)
           /\ \A m \in TransportMessages : ENABLED FetchReject(i, m)

C11_ConcurrentProbes ==
    /\ []C11_NoProbeWaits
    /\ [][/\ PingAllStep => Dispatched(endpoints')
          /\ \A i, j \in DOMAIN probes :
               (/\ i # j
                /\ ~probes[i].settled
                /\ probes[i].endpoint.id # probes[j].endpoint.id
                /\ FetchResolve(j))
               => /\ endpointStatuses'[probes[j].endpoint.id].status = "ok"
                  /\ endpointStatuses'[probes[j].endpoint.id].lastChecked = <<now>>
                  /\ \E k \in DOMAIN probes' : probes'[k] = probes[i]]_vars

(* A and B were probed by the same call; the probe of A has hung for the
   whole 10 s while B's outcome was applied at the time of the dispatch *)
C11_Witness ==
    /\ Len(endpoints) = 2
    /\ endpoints[1].id # endpoints[2].id
    /\ \E i \in DOMAIN probes :
         /\ probes[i].endpoint = endpoints[1]
         /\ ~probes[i].settled
         /\ now = probes[i].started + 10000
         /\ endpoints[2].id \in DOMAIN endpointStatuses
         /\ StatusOf(endpoints[2].id).status = "ok"
         /\ StatusOf(endpoints[2].id).lastChecked = <<probes[i].started>>

(* C12: while endpoints are registered the interval is pending and comes due
   no more than 60 s from now; the interval is only ever (re)started by a step
   that probes every registered endpoint at that moment, and each time it
   comes due every registered endpoint is probed again, so no registered
   endpoint goes 60 s without a probe.  addEndpoint probes the new endpoint
   in the same step, into an empty set or not. *)
ProbedNow(ep) ==
    \E i \in DOMAIN probes' \ DOMAIN probes :
        /\ probes'[i].endpoint = ep
        /\ probes'[i].started = now'
        /\ ~probes'[i].settled

C12_IntervalPending ==
    endpoints # <<>>
    => /\ intervalTimer # <<>>
       /\ now <= intervalTimer[1]
       /\ intervalTimer[1] <= now + 60000

C12_ProbedEveryPeriod ==
    /\ []C12_IntervalPending
    /\ [][/\ (intervalTimer' # intervalTimer /\ intervalTimer' # <<>>)
               => /\ intervalTimer' = <<now + 60000>>
                  /\ \A k \in DOMAIN endpoints' : ProbedNow(endpoints'[k])
          /\ (endpoints # <<>> /\ intervalTimer # <<>> /\ now' > now)
               => now' <= intervalTimer[1]
          /\ \A in \in EndpointInputs :
               addEndpoint(in.url, in.credentials)
               => ProbedNow(endpoints'[Len(endpoints')])]_vars

(* the interval has come due 60 s after the endpoint was added and has
   probed it again *)
C12_Witness ==
    /\ Len(endpoints) = 1
    /\ endpoints[1].id = 0
    /\ now = 60000
    /\ intervalTimer = <<120000>>
    /\ \E i \in DOMAIN probes :
         /\ probes[i].endpoint = endpoints[1]
         /\ probes[i].started = 60000
         /\ ~probes[i].settled

(* C13: probes off the 60 s cadence go only to an endpoint being added or
   manually pinged: addEndpoint into a non-empty set dispatches the new
   endpoint's probe only, removeEndpoint with other endpoints left and
   updateEndpoint without a url dispatch none, and none of the three restarts
   the pending interval. *)
C13_OnlyAddedIsProbed ==
    [][/\ \A in \in EndpointInputs :
            (endpoints # <<>> /\ addEndpoint(in.url, in.credentials))
            => /\ intervalTimer' = intervalTimer
               /\ Len(probes') = Len(probes) + 1
               /\ probes'[Len(probes')].endpoint = endpoints'[Len(endpoints')]
       /\ \A id \in RegisteredIds :
            (removeEndpoint(id) /\ endpoints' # <<>>)
            => /\ intervalTimer' = intervalTimer
               /\ probes' = probes
       /\ \A id \in RegisteredIds :
            updateEndpoint(id, [color |-> "hsl(0, 0%, 0%)"])
            => /\ intervalTimer' = intervalTimer
               /\ probes' = probes]_vars

(* the outcome of probe i is applied in this step *)
OutcomeOf(i) ==
    /\ ~probes[i].settled
    /\ \/ FetchResolve(i)
       \/ \E m \in TransportMessages : FetchReject(i, m)
       \/ AbortTimerFire(i)

(* C19: with two probes of one endpoint in flight (probes are kept in the
   order of their dispatch), an outcome of the earlier probe that arrives
   after the later probe's outcome was applied leaves the stored status as
   the later probe wrote it. *)
C19_EarlierNeverOverwrites ==
    [][\A i, j \in DOMAIN probes :
         (/\ i < j
          /\ probes[i].endpoint.id = probes[j].endpoint.id
          /\ probes[j].settled
          /\ OutcomeOf(i))
         => endpointStatuses'[probes[i].endpoint.id]
              = endpointStatuses[probes[i].endpoint.id]]_vars

(* C20: the outcome of a probe that was dispatched with a URL the endpoint no
   longer has leaves the endpoint's status entry as it is and does not set
   Error Info with that old URL. *)
C20_EditInvalidatesProbe ==
    [][\A i \in DOMAIN probes, k \in DOMAIN endpoints :
         (/\ endpoints[k].id = probes[i].endpoint.id
          /\ endpoints[k].url # probes[i].endpoint.url
          /\ OutcomeOf(i))
         => /\ endpointStatuses'[endpoints[k].id] = endpointStatuses[endpoints[k].id]
            /\ \/ errorInfo' = errorInfo
               \/ errorInfo' = <<>>
               \/ errorInfo'[1].url # probes[i].endpoint.url]_vars

(* C14: buildAuthHeaders returns, for every credential descriptor, the
   headers of the reference mapping and never throws: none for null and for
   type none, Authorization = "Basic " + base64(username:password) for basic
   with both fields non-empty, Authorization = "Bearer " + token for bearer
   with a token, headerName = headerValue for apikey with both, and none
   whenever a required field is blank or missing. *)
ReferenceHeaders(c) ==
    IF c = <<>> THEN {}
    ELSE LET d == c[1]
             has(f) == f \in DOMAIN d /\ d[f] # <<>>
         IN CASE d.type = "basic" /\ has("username") /\ has("password") ->
                   {<<Authorization,
                      BasicPrefix \o Base64(d.username \o <<58>> \o d.password)>>}
              [] d.type = "bearer" /\ has("token") ->
                   {<<Authorization, BearerPrefix \o d.token>>}
              [] d.type = "apikey" /\ has("headerName") /\ has("headerValue") ->
                   {<<d.headerName, d.headerValue>>}
              [] OTHER -> {}

C14_HeadersAreReference ==
    authHeaders # NotCalled
    => authHeaders = [returned |-> ReferenceHeaders(credentialsArg)]

(* C18: getStatusBadge returns the Pending badge for an id with no entry,
   a null entry or status pending, the OK badge for status ok and the Error
   badge for status error. *)
C18_BadgeIsTotal ==
    badge # NotCalled
    => LET id == endpointIdArg
           missing == id \notin DOMAIN endpointStatuses
                        \/ DOMAIN endpointStatuses[id] = {}
       IN CASE missing -> badge = [className |-> "badge-pending", text |-> "Pending"]
            [] ~missing /\ endpointStatuses[id].status = "pending" ->
                 badge = [className |-> "badge-pending", text |-> "Pending"]
            [] ~missing /\ endpointStatuses[id].status = "ok" ->
                 badge = [className |-> "badge-ok", text |-> "OK"]
            [] ~missing /\ endpointStatuses[id].status = "error" ->
                 badge = [className |-> "badge-error", text |-> "Error"]
            [] OTHER -> FALSE

(* the badge of an id that has no entry in a snapshot with entries *)
C18_Witness ==
    /\ badge = [className |-> "badge-pending", text |-> "Pending"]
    /\ endpointStatuses # <<>>
    /\ endpointIdArg \notin DOMAIN endpointStatuses

(* an instance of the aquarium (not a preview) is mounted *)
Swims == props # <<>> /\ ~props[1].isPreview
FrameStep == frames' = frames + 1

(* C15: when hasError turns true on an instance that swims healthy, the
   target roll becomes pi and the vertical target the surface height 8, and
   no frame of an instance whose hasError is true changes x, z or yaw. *)
C15_ErrorSurfacesAndStops ==
    [][/\ (Swims /\ ~props[1].hasError /\ ~motion[1].isRecovering /\ Render(TRUE))
            => /\ motion'[1].targetRotZ = 3142
               /\ motion'[1].targetY = 8000
       /\ (Swims /\ props[1].hasError /\ FrameStep)
            => /\ motion'[1].pos.x = motion[1].pos.x
               /\ motion'[1].pos.z = motion[1].pos.z
               /\ motion'[1].rotY = motion[1].rotY]_vars

(* an instance that swam healthy and turned to error has run its second
   frame since: it has rolled twice and is rising to the surface *)
C15_Witness ==
    /\ Swims
    /\ props[1].hasError
    /\ renders = 1
    /\ frames > 2
    /\ motion[1].rotZ = 185
    /\ motion[1].targetY = 8000
    /\ motion[1].targetRotZ = 3142
    /\ motion[1].pos.y > motion[1].baseY

(* C16: when hasError turns false on a surfaced instance, the vertical
   target stays at the surface height and the vertical position where it is,
   and no frame moves the instance down or resets the vertical target while
   the absolute roll is 0.1 rad or more; the target is reset to the baseline
   by the frame that finds the roll below 0.1 rad. *)
C16_DescentWaitsForRoll ==
    [][/\ (Swims /\ props[1].hasError /\ motion[1].targetY = 8000 /\ Render(FALSE))
            => /\ motion'[1].targetY = 8000
               /\ motion'[1].pos.y = motion[1].pos.y
               /\ motion'[1].isRecovering
       /\ (Swims /\ motion[1].isRecovering /\ FrameStep)
            => IF Abs(motion'[1].rotZ) >= 100
               THEN /\ motion'[1].targetY = 8000
                    /\ motion'[1].pos.y >= motion[1].pos.y
               ELSE /\ motion'[1].targetY = motion[1].baseY
                    /\ ~motion'[1].isRecovering]_vars

(* C17: every unreachable outcome stores status error with the failure
   message, and for as long as the stored status of the endpoint is error -
   from the first failure through the dispatch of the second probe, whose
   optimistic pending status is shown meanwhile, to the second failure and
   after - its instance is ascending to the surface: hasError is true, the
   target roll is pi, the vertical target is 8 and it is not recovering. *)
C17_Ascending ==
    (/\ Swims
     /\ props[1].key \in DOMAIN endpointStatuses
     /\ endpointStatuses[props[1].key].status = "error")
    => /\ props[1].hasError
       /\ motion[1].targetRotZ = 3142
       /\ motion[1].targetY = 8000
       /\ ~motion[1].isRecovering

C17_StaysAscending ==
    /\ []C17_Ascending
    /\ [][\A i \in DOMAIN probes :
            LET id == probes[i].endpoint.id
                message(m) == IF m = "" THEN "Failed to reach endpoint" ELSE m
            IN /\ \A m \in TransportMessages :
                     FetchReject(i, m)
                     => /\ endpointStatuses'[id].status = "error"
                        /\ endpointStatuses'[id].error = <<message(m)>>
               /\ (/\ Swims
                   /\ props[1].key = id
                   /\ id \in DOMAIN endpointStatuses
                   /\ endpointStatuses[id].status = "error"
                   /\ \E m \in TransportMessages : FetchReject(i, m))
                  => /\ props' = props
                     /\ motion' = motion]_vars

(* the endpoint failed with "Failed to reach endpoint", the probe of the
   next cycle is in flight and shown as pending, and the instance has run
   frames on its way to the surface *)
C17_Witness ==
    /\ Swims
    /\ frames > 0
    /\ motion[1].targetY = 8000
    /\ motion[1].rotZ > 0
    /\ \E i \in DOMAIN probes :
         LET id == probes[i].endpoint.id IN
         /\ id = props[1].key
         /\ ~probes[i].settled
         /\ id \in DOMAIN endpointStatuses
         /\ StatusOf(id).status = "error"
         /\ StatusOf(id).error = <<"Failed to reach endpoint">>
         /\ StatusOf(id).lastChecked[1] < 60000
         /\ probes[i].started = 60000
         /\ optimisticStatuses[id].status = "pending"

(* C21: an endpoint none of whose probes is in flight is shown with its
   stored status: the optimistic pending of its finished probe is gone from
   the snapshot, also while probes of other endpoints are still in flight. *)
InFlight(id) ==
    \E i \in DOMAIN probes : ~probes[i].settled /\ probes[i].endpoint.id = id

C21_OverlayClearedOnWrite ==
    \A id \in DOMAIN endpointStatuses :
        ~InFlight(id)
        => optimisticStatuses[id].status = endpointStatuses[id].status

(* C22: no abort timer of a probe whose fetch has already settled is left
   pending, and no fetch is left pending once its abort timer has fired. *)
C22_LoserIsCancelled ==
    \A i \in DOMAIN probes : ~probes[i].settled

(* C28: in the snapshot given to consumers lastChecked is null for as long
   as the stored entry's lastChecked is null, that is from registration or a
   URL edit until an outcome is applied; dispatching a probe does not set
   it. *)
C28_LastCheckedNullUntilOutcome ==
    \A id \in DOMAIN endpointStatuses :
        endpointStatuses[id].lastChecked = <<>>
        => optimisticStatuses[id].lastChecked = <<>>

(* C29: no two registered endpoints have the same id, also when both were
   added within the same millisecond. *)
C29_IdsAreUnique ==
    \A i, j \in DOMAIN endpoints :
        i # j => endpoints[i].id # endpoints[j].id

(* C30: Error Info never shows the failure of an endpoint that has just
   been removed or whose URL has just been edited: removeEndpoint of the
   endpoint that Error Info names, and updateEndpoint of it with a url, leave
   Error Info null. *)
C30_ErrorInfoFollowsRegistry ==
    [][\A id \in RegisteredIds :
         (/\ errorInfo # <<>>
          /\ errorInfo[1].endpointId = id
          /\ \/ removeEndpoint(id)
             \/ \E u \in URLs : updateEndpoint(id, [url |-> u]))
         => errorInfo' = <<>>]_vars

(* C23: a response with an HTTP error status to a probe sent in cors mode
   makes the status of the probe's endpoint error. *)
C23_HttpErrorIsUnreachable ==
    [][\A i \in DOMAIN probes, st \in {401, 500} :
         (probes[i].mode = "cors" /\ FetchResponds(i, st))
         => endpointStatuses'[probes[i].endpoint.id].status = "error"]_vars

(* C24: an instance that is ascending to the surface leaves that state only
   when the status of its endpoint becomes ok: a step after which the
   snapshot shows the endpoint with any other status, or without one, leaves
   the instance mounted with the vertical target 8 and the target roll pi,
   and does not start a recovery. *)
C24_LeavesAscendingOnlyOnOk ==
    [][(/\ Swims
        /\ props[1].hasError
        /\ motion[1].targetY = SURFACE_Y
        /\ ~(/\ props[1].key \in DOMAIN optimisticStatuses'
             /\ optimisticStatuses'[props[1].key].status = "ok"))
       => /\ props' # Null
          /\ motion'[1].targetY = SURFACE_Y
          /\ motion'[1].targetRotZ = PI
          /\ ~motion'[1].isRecovering]_vars

(* C25: a render of an aquarium instance with another hasError changes only
   targets and flags: its position, yaw and roll and its turning radius are
   what they were before the render. *)
C25_StatusChangesOnlyTargets ==
    [][(/\ Swims
        /\ props' # Null
        /\ props'[1].hasError # props[1].hasError)
       => /\ motion'[1].pos = motion[1].pos
          /\ motion'[1].rotY = motion[1].rotY
          /\ motion'[1].rotZ = motion[1].rotZ
          /\ motion'[1].radiusFac = motion[1].radiusFac]_vars

(* a frame of a recovering, healthy instance either brings the roll within
   0.1 of zero and ends the recovery, or leaves the instance recovering with
   a roll strictly nearer to zero; a render with an error ends the recovery
   in the ascent *)
C26_RecoveryStep ==
    [][(/\ Swims
        /\ ~props[1].hasError
        /\ motion[1].isRecovering)
       => /\ FrameStep
             => IF Abs(motion'[1].rotZ) < UPRIGHT
                THEN /\ ~motion'[1].isRecovering
                     /\ motion'[1].targetY = motion[1].baseY
                     /\ motion'[1].rotY # motion[1].rotY
                ELSE /\ motion'[1].isRecovering
                     /\ Abs(motion'[1].rotZ) < Abs(motion[1].rotZ)
          /\ (props' # Null /\ props'[1].hasError)
             => /\ motion'[1].targetY = SURFACE_Y
                /\ motion'[1].targetRotZ = PI
                /\ ~motion'[1].isRecovering]_vars

(* a recovery that starts from the roll of two frames of ascent, with the
   24 frames it takes still to come, ends *)
C26_RecoveryEnds ==
    (/\ Swims
     /\ motion[1].isRecovering
     /\ motion[1].rotZ <= 185
     /\ frames + 24 <= MaxFrames)
    ~> (Swims /\ ~motion[1].isRecovering)

(* C26: a recovering instance whose status stays healthy comes, after
   finitely many frames, to a frame that brings the roll within 0.1 of zero,
   and that frame clears the recovering flag, resets the vertical target to
   the baseline and advances the swim arc; every earlier frame leaves it
   recovering with a roll strictly nearer to zero; and a render with an
   error of a recovering instance leaves it ascending to the surface with
   the recovering flag cleared. *)
C26_RecoveryCompletes == C26_RecoveryStep /\ C26_RecoveryEnds

(* a recovery that waited for the roll has completed: the roll, on its way
   down from the surface, has just passed 0.1 and the instance swims *)
C26_Witness ==
    /\ Swims
    /\ ~props[1].hasError
    /\ ~motion[1].isRecovering
    /\ motion[1].targetRotZ = 0
    /\ motion[1].targetY = motion[1].baseY
    /\ motion[1].rotZ = 97

(* C27: a frame of a recovering instance that leaves it recovering changes
   neither x nor z nor the yaw. *)
C27_NoSwimWhileRecovering ==
    [][(/\ Swims
        /\ motion[1].isRecovering
        /\ FrameStep
        /\ motion'[1].isRecovering)
       => /\ motion'[1].pos.x = motion[1].pos.x
          /\ motion'[1].pos.z = motion[1].pos.z
          /\ motion'[1].rotY = motion[1].rotY]_vars

(* a recovering instance after its first recovery frame, still rolled *)
C27_Witness ==
    /\ Swims
    /\ ~props[1].hasError
    /\ motion[1].isRecovering
    /\ motion[1].rotZ = 180
    /\ frames >= 3

====
